---------------------------- MODULE Spec2Model ----------------------------
(***************************************************************************)
(* A model of the SASC entry point of plastic: the Cython binding sasc()   *)
(* (src/plastic/phylogeny/sasc/bindings/_sasc.pyx) and the C driver        *)
(* compute() (src/phylo/sasc/bindings/sasc-compute.c) with its repetition  *)
(* loop, the retained best tree, the error-learning parameters and the     *)
(* output phase.                                                           *)
(*                                                                         *)
(* compute() calls anneal, greedy_tree_loglikelihood, treecpy,             *)
(* get_genotype_profile, set_el_params, node_new, node_append and shuffle, *)
(* whose bodies (sastep.c, utils.c, tree.c) are not among the sources:     *)
(* they are modelled from the specification (sections 4.1 - 4.4) and       *)
(* marked so in the model map.                                             *)
(*                                                                         *)
(* Units.  Log-likelihoods are integers in tenths of a nat; minus infinity *)
(* (log 0) is the value NegInf, below -DBL_MAX.  Probabilities are levels  *)
(* 0..3 standing for 0, 0.1, 0.5 and 1.  Temperatures are integers in      *)
(* thousandths, cooling rates in percent.                                  *)
(***************************************************************************)
EXTENDS Integers, Sequences, FiniteSets, TLC

VARIABLES
    pc,            \* position: "call", "compute", "repetition", "anneal",
                   \*           "output", "done", "returned", "undefined",
                   \*           or the exception raised
    call,          \* the Python-level parameters of sasc()
    arguments,     \* sasc_in_t, as marshalled by sasc()
    r,             \* repetition counter of compute's loop
    MULTI_ALPHAS,  \* compute's copy of the false-negative rates (levels)
    BETA,          \* compute's copy of the false-positive rate (level)
    MULTI_GAMMAS,  \* compute's copy of the prior loss probabilities
    el_params,     \* elpar_t: a_mu, a_xs, b_mu, b_x, g_mu, g_xs
    sa,            \* the state of the running anneal() call
    best_tree,     \* best_tree_vec; <<>> is best_tree = NULL
    best_loglike,  \* score under which best_tree was retained
    out,           \* sasc_out_t, written by compute's output phase
    hist,          \* history: one record per finished repetition
    Cj,            \* compute's per-mutation loss counters
    discarded,     \* proposals discarded in the current annealing step
    result,        \* the value sasc() returns to its caller
    mem,           \* the C buffers sasc() holds and what it did with them
    trees,         \* the trees compute holds: how often each was destroyed, and the best
    scan           \* the parallel per-cell maximization: shared data, slots, workers

vars == <<pc, call, arguments, r, MULTI_ALPHAS, BETA, MULTI_GAMMAS,
          el_params, sa, best_tree, best_loglike, out, hist, Cj, discarded, result, mem, trees, scan>>

(***************************************************************************)
(* Bounds of the model.                                                    *)
(***************************************************************************)
MaxN == 2
MaxM == 2
MaxK == 1
MaxDel == 2
MaxReps == 2
MaxDiscards == 1
MaxCores == 3
MaxStartTemp == 4

(***************************************************************************)
(* Program constants.                                                      *)
(***************************************************************************)
\* double MIN_TEMP = 0.001, in thousandths
MIN_TEMP == 1
\* the magnitude of best_loglike's initial value -DBL_MAX
DBL_MAX == 100000

NegInf == -(DBL_MAX + 1)
NULL == <<>>

(***************************************************************************)
(* Arithmetic of log-likelihoods.                                          *)
(***************************************************************************)
\* IEEE addition on the modelled values: minus infinity absorbs.
LogAdd(a, b) == IF a = NegInf \/ b = NegInf THEN NegInf ELSE a + b

ProbLevels == 0..3
\* log(p) for the levels p = 0, 0.1, 0.5, 1
LogP(l) == CASE l = 0 -> NegInf [] l = 1 -> -23 [] l = 2 -> -7 [] OTHER -> 0
\* log(1 - p) for the same levels
Log1mP(l) == CASE l = 0 -> 0 [] l = 1 -> -1 [] l = 2 -> -7 [] OTHER -> NegInf

Max(S) == CHOOSE x \in S : \A y \in S : y <= x
Min(S) == CHOOSE x \in S : \A y \in S : x <= y

(***************************************************************************)
(* Trees.  A tree is the vector of its nodes (ml_tree_vec, best_tree_vec): *)
(* a sequence whose element at position i+1 is the node at vector index i. *)
(* parent is the position of the parent node, 0 for the root's NULL.       *)
(***************************************************************************)
node_new(mut_index, id, parent) ==
    [id |-> id, mut_index |-> mut_index, loss |-> 0, parent |-> parent]

loss_new(mut_index, id, parent) ==
    [id |-> id, mut_index |-> mut_index, loss |-> 1, parent |-> parent]

Children(tree, p) == {i \in 1..Len(tree) : tree[i].parent = p}

RECURSIVE PathTo(_, _)
\* the positions of the root-to-node path, root first
PathTo(tree, i) ==
    IF tree[i].parent = 0 THEN <<i>>
    ELSE Append(PathTo(tree, tree[i].parent), i)

\* the nodes of the subtree rooted at x (x included)
Subtree(tree, x) ==
    {i \in 1..Len(tree) : \E n \in 1..Len(PathTo(tree, i)) : PathTo(tree, i)[n] = x}

LossNodes(tree) == {i \in 1..Len(tree) : tree[i].loss = 1}

\* loss nodes of mutation j on the root-to-node path of i
LossesOnPath(tree, i, j) ==
    {n \in 1..Len(PathTo(tree, i)) :
        /\ tree[PathTo(tree, i)[n]].loss = 1
        /\ tree[PathTo(tree, i)[n]].mut_index = j}

RECURSIVE FoldProfile(_, _, _, _)
FoldProfile(tree, path, n, gtp) ==
    IF n > Len(path) THEN gtp
    ELSE LET node == tree[path[n]]
         IN  IF node.mut_index \in 0..(Len(gtp) - 1)
             THEN FoldProfile(tree, path, n + 1,
                      [gtp EXCEPT ![node.mut_index + 1] =
                                      IF node.loss = 1 THEN 0 ELSE 1])
             ELSE FoldProfile(tree, path, n + 1, gtp)

\* a faulty variant: the events of every node built before i are applied,
\* on its path or not
get_genotype_profile_bug(tree, i, m) ==
    FoldProfile(tree, [n \in 1..i |-> n], 1, [j \in 1..m |-> 0])

\* get_genotype_profile: all absent, each gain on the path sets its mutation
\* present, each later loss of it sets it absent again
get_genotype_profile(tree, i, m) ==
    FoldProfile(tree, PathTo(tree, i), 1, [j \in 1..m |-> 0])

\* treecpy: a deep copy, node for node
treecpy(tree) == tree


(***************************************************************************)
(* The attachment scorer.                                                  *)
(***************************************************************************)
\* the log-likelihood of one observed entry given the profile's state; an
\* entry that is neither 0 nor 1 is missing and contributes nothing
EntryLh(obs, present, alpha, beta) ==
    IF obs \notin {0, 1} THEN 0
    ELSE IF present = 1
         THEN (IF obs = 1 THEN Log1mP(alpha) ELSE LogP(alpha))
         ELSE (IF obs = 0 THEN Log1mP(beta) ELSE LogP(beta))

RECURSIVE RowLh(_, _, _, _, _)
\* the log-likelihood of a cell's row against a profile, entries j..Len(row)
RowLh(row, gtp, alphas, beta, j) ==
    IF j > Len(row) THEN 0
    ELSE LogAdd(EntryLh(row[j], gtp[j], alphas[j], beta),
                RowLh(row, gtp, alphas, beta, j + 1))

CellNodeLh(tree, i, row, alphas, beta) ==
    RowLh(row, get_genotype_profile(tree, i, Len(row)), alphas, beta, 1)

\* the maximum over the nodes of the tree
CellMaxLh(tree, row, alphas, beta) ==
    Max({CellNodeLh(tree, i, row, alphas, beta) : i \in 1..Len(tree)})

\* the vector index of the maximizing node, ties broken by lowest node id
CellAttachment(tree, row, alphas, beta) ==
    LET best == CellMaxLh(tree, row, alphas, beta)
        cands == {i \in 1..Len(tree) : CellNodeLh(tree, i, row, alphas, beta) = best}
        pick == CHOOSE i \in cands : \A c \in cands : tree[i].id <= tree[c].id
    IN  pick - 1

RECURSIVE SumLh(_, _)
SumLh(lhs, i) ==
    IF i > Len(lhs) THEN 0 ELSE LogAdd(lhs[i], SumLh(lhs, i + 1))

\* greedy_tree_loglikelihood: the score and the attachment it writes to sigma
greedy_tree_loglikelihood(tree, matrix, alphas, beta) ==
    [lh    |-> SumLh([i \in 1..Len(matrix) |->
                         CellMaxLh(tree, matrix[i], alphas, beta)], 1),
     sigma |-> [i \in 1..Len(matrix) |->
                         CellAttachment(tree, matrix[i], alphas, beta)]]

(***************************************************************************)
(* The random initial tree of a repetition.                                *)
(***************************************************************************)
\* shuffle: rantree is some permutation of 0..m-1
Shuffles(m) ==
    {s \in [1..m -> 0..(m - 1)] : \A a, b \in 1..m : s[a] = s[b] => a = b}

RECURSIVE AppendPairs(_, _, _, _, _)
\* the loop "for (i; i < M; i++) { cnode1; i += 1; if (i < M) cnode2;
\* app_node += 1 }": i and app_node are the C (0-based) values
AppendPairs(vec, rantree, m, i, app_node) ==
    IF i >= m THEN vec
    ELSE LET v1 == Append(vec, node_new(rantree[i + 1], Len(vec), app_node + 1))
             v2 == IF i + 1 < m
                   THEN Append(v1, node_new(rantree[i + 2], Len(v1), app_node + 1))
                   ELSE v1
         IN  AppendPairs(v2, rantree, m, i + 2, app_node + 1)

\* the germline root, alone in ml_tree_vec
Germline == <<node_new(-1, 0, 0)>>

\* a faulty variant: the monoclonal branch starts appending at the germline
MonoclonalAppNode_bug == 1 - 1

\* the first app_node of the monoclonal branch
MonoclonalAppNode == 1

\* a faulty variant: the non-monoclonal loop starts at i = 1 as the
\* monoclonal one does, and leaves rantree[0] out
InitialTree_bug(rantree, m, monoclonal) ==
    IF monoclonal = 0
    THEN AppendPairs(Germline, rantree, m, 1, 0)
    ELSE LET first_clone == node_new(rantree[1], Len(Germline), 1)
         IN  AppendPairs(Append(Germline, first_clone), rantree, m, 1,
                         MonoclonalAppNode)

\* the tree built for rantree; the monoclonal branch needs m >= 1
InitialTree(rantree, m, monoclonal) ==
    IF monoclonal = 0
    THEN AppendPairs(Germline, rantree, m, 0, 0)
    ELSE LET first_clone == node_new(rantree[1], Len(Germline), 1)
         IN  AppendPairs(Append(Germline, first_clone), rantree, m, 1,
                         MonoclonalAppNode)


(***************************************************************************)
(* The moves of the annealing search.                                      *)
(***************************************************************************)
\* the k-Dollo, deletion-budget and monoclonal constraints on a tree
ValidTree(tree, k, max_losses, monoclonal) ==
    /\ \A i \in LossNodes(tree) :
          \E n \in 1..(Len(PathTo(tree, i)) - 1) :
              /\ tree[PathTo(tree, i)[n]].loss = 0
              /\ tree[PathTo(tree, i)[n]].mut_index = tree[i].mut_index
    /\ \A i \in 1..Len(tree) : \A l \in LossNodes(tree) :
          Cardinality(LossesOnPath(tree, i, tree[l].mut_index)) <= k
    /\ Cardinality(LossNodes(tree)) <= max_losses
    /\ monoclonal # 0 => Cardinality(Children(tree, 1)) = 1

\* the proposals of a tree edit: relocate the subtree of x under y, insert a
\* loss node of mutation x under y (taking over y's children when flag = 1),
\* remove the loss node x
TreeMoves(tree, m) ==
    {[kind |-> "relocate", x |-> x, y |-> y, flag |-> 0] :
        x \in 2..Len(tree), y \in 1..Len(tree)}
    \cup
    {[kind |-> "insert", x |-> j, y |-> p, flag |-> f] :
        j \in 0..(m - 1), p \in 1..Len(tree), f \in {0, 1}}
    \cup
    {[kind |-> "remove", x |-> x, y |-> 0, flag |-> 0] : x \in LossNodes(tree)}

\* a relocation under the node's own parent changes nothing; one under the
\* node itself or a descendant of it would close a cycle
Structural(tree, mv) ==
    mv.kind = "relocate" =>
        /\ mv.y # tree[mv.x].parent
        /\ mv.y \notin Subtree(tree, mv.x)

\* a faulty variant: the new node takes the largest id in use
NextId_bug(tree) == Max({tree[i].id : i \in 1..Len(tree)})

NextId(tree) == Max({tree[i].id : i \in 1..Len(tree)}) + 1

Relocate(tree, x, y) == [tree EXCEPT ![x].parent = y]

InsertLoss(tree, j, p, adopt) ==
    LET new == Len(tree) + 1
        moved == [i \in 1..Len(tree) |->
                    IF adopt = 1 /\ tree[i].parent = p
                    THEN [tree[i] EXCEPT !.parent = new] ELSE tree[i]]
    IN  Append(moved, loss_new(j, NextId(tree), p))

RemoveLoss(tree, x) ==
    LET lifted == [i \in 1..Len(tree) |->
                     IF tree[i].parent = x
                     THEN [tree[i] EXCEPT !.parent = tree[x].parent] ELSE tree[i]]
        old(i) == IF i >= x THEN i + 1 ELSE i
        new(p) == IF p > x THEN p - 1 ELSE p
    IN  [i \in 1..(Len(tree) - 1) |->
            [lifted[old(i)] EXCEPT !.parent = new(lifted[old(i)].parent)]]

ApplyMove(tree, mv) ==
    CASE mv.kind = "relocate" -> Relocate(tree, mv.x, mv.y)
      [] mv.kind = "insert"   -> InsertLoss(tree, mv.x, mv.y, mv.flag)
      [] OTHER                -> RemoveLoss(tree, mv.x)

\* a proposal that is evaluated; any other is discarded before scoring
ValidMove(tree, mv, k, max_losses, monoclonal) ==
    /\ Structural(tree, mv)
    /\ ValidTree(ApplyMove(tree, mv), k, max_losses, monoclonal)

\* temperature <- temperature * (1 - cooling_rate), the rate in percent; the
\* product is kept to the precision of the temperature, rounded to nearest
\* as the product of two doubles is
Cool(temp, rate) == (temp * (100 - rate) + 50) \div 100

\* the Metropolis criterion: a better score is accepted, another one may be
\* accepted with probability exp((new - old) / temperature), which is 0
\* for a score of minus infinity
MayAccept(new_lh, old_lh) == new_lh # NegInf
MayReject(new_lh, old_lh) == ~(new_lh > old_lh)


(***************************************************************************)
(* The binding sasc(): its inputs, validation and marshalling.             *)
(***************************************************************************)
\* two families of genotype matrices, cut to n cells and m mutations
MatrixA(n, m) ==
    [i \in 1..n |-> [j \in 1..m |->
        IF j <= i THEN 1 ELSE IF j = i + 1 THEN 2 ELSE 0]]
MatrixB(n, m) ==
    [i \in 1..n |-> [j \in 1..m |-> IF j >= i THEN 1 ELSE 0]]

\* a number argument is its integer part plus frac halves; Whole marks k,
\* max_deletions, repetitions and cores as integers
Whole == [k |-> 0, max_deletions |-> 0, repetitions |-> 0, cores |-> 0]

\* the calls with single alphas and gammas that pass the validation; alphas
\* and gammas hold the single value as a one-element sequence
CallsOfShape(n, m) ==
    [matrix         : {MatrixA(n, m), MatrixB(n, m)},
     shape          : {<<n, m>>},
     alphas         : {<<1>>},
     single_alpha   : {TRUE},
     beta           : {0, 1},
     gammas         : {<<3>>},
     single_gamma   : {TRUE},
     k              : 0..MaxK,
     max_deletions  : 0..MaxDel,
     repetitions    : 1..MaxReps,
     start_temp     : {0, MaxStartTemp \div 2, MaxStartTemp},
     cooling_rate   : {50},
     el_variance    : {<<0, 0, 0>>, <<1, 1, 1>>},
     cores          : {1},
     frac           : {Whole},
     monoclonal     : BOOLEAN]

\* the calls of sasc() the model draws: shape is genotype_matrix.shape; the
\* longest annealing schedule is drawn with a single repetition
Calls ==
    {c \in UNION {CallsOfShape(n, m) : n \in 0..MaxN, m \in 0..MaxM} :
        c.start_temp = MaxStartTemp => c.repetitions = 1}

\* the call the probes of the validation start from, one per shape
BaseCall(n, m) ==
    [matrix |-> MatrixA(n, m), shape |-> <<n, m>>,
     alphas |-> <<1>>, single_alpha |-> TRUE, beta |-> 1,
     gammas |-> <<3>>, single_gamma |-> TRUE,
     k |-> 1, max_deletions |-> 1, repetitions |-> 1, start_temp |-> 0,
     cooling_rate |-> 50, el_variance |-> <<0, 0, 0>>, cores |-> 1,
     frac |-> Whole, monoclonal |-> FALSE]

\* the lists of probability levels of a given length, some out of [0, 1]
LevelLists(len) == [1..len -> {-1, 1, 3, 4}]

\* the base call with one argument changed: out of its range, fractional,
\* or a list in the place of a single value
ProbesOf(b) ==
    LET m == b.shape[2]
    IN  {[b EXCEPT !.beta = v] : v \in {-1, 0, 3, 4}}
        \cup {[b EXCEPT !.el_variance = v] :
                 v \in {<<-1, 0, 0>>, <<0, -1, 0>>, <<0, 0, -1>>}}
        \cup {[b EXCEPT !.k = v, !.frac.k = h] : v \in {-1, 0}, h \in {0, 1}}
        \cup {[b EXCEPT !.max_deletions = v, !.frac.max_deletions = h] :
                 v \in {-1, 0}, h \in {0, 1}}
        \cup {[b EXCEPT !.repetitions = v, !.frac.repetitions = h] :
                 v \in {-1, 0, 1}, h \in {0, 1}}
        \cup {[b EXCEPT !.start_temp = v] : v \in {-1}}
        \cup {[b EXCEPT !.cooling_rate = v] : v \in {-50, 0}}
        \cup {[b EXCEPT !.start_temp = MaxStartTemp \div 2, !.cooling_rate = v] :
                 v \in {1, 100, 150}}
        \cup {[b EXCEPT !.cores = v, !.frac.cores = h] :
                 v \in {-1, 0, 1, 2}, h \in {0, 1}}
        \cup {[b EXCEPT !.alphas = <<v>>] : v \in {-1, 0, 3, 4}}
        \cup {[b EXCEPT !.gammas = <<v>>] : v \in {-1, 0, 4}}
        \cup {[b EXCEPT !.alphas = v, !.single_alpha = FALSE] :
                 v \in UNION {LevelLists(len) : len \in 0..(m + 1)}}
        \cup {[b EXCEPT !.gammas = v, !.single_gamma = FALSE] :
                 v \in UNION {LevelLists(len) : len \in 0..(m + 1)}}

\* the calls that probe the validation
ProbeCalls ==
    UNION {ProbesOf(BaseCall(n, m)) : n \in 0..MaxN, m \in 0..MaxM}

\* "[alphas] * M" for a single value, the list itself otherwise
Broadcast(single, values, m) ==
    IF single THEN [j \in 1..m |-> values[1]] ELSE values

\* the input validation of sasc()
Validated(c) ==
    LET m == c.shape[2]
        alphas == Broadcast(c.single_alpha, c.alphas, m)
        gammas == Broadcast(c.single_gamma, c.gammas, m)
    IN  /\ ~(c.beta < 0 \/ c.beta > 3)
        /\ ~(c.el_variance[1] < 0 \/ c.el_variance[2] < 0 \/ c.el_variance[3] < 0)
        /\ ~(c.frac.k # 0 \/ c.k < 0)
        /\ ~(c.frac.max_deletions # 0 \/ c.max_deletions < 0)
        /\ ~(c.frac.repetitions # 0 \/ c.repetitions < 1)
        /\ ~(c.start_temp < 0)
        /\ ~(c.cooling_rate <= 0)
        /\ ~(c.frac.cores # 0 \/ c.cores < 1)
        /\ ~(Len(alphas) # m)
        /\ ~(Len(gammas) # m)
        /\ ~(\E j \in 1..Len(alphas) : alphas[j] < 0 \/ alphas[j] > 3)
        /\ ~(\E j \in 1..Len(gammas) : gammas[j] < 0 \/ gammas[j] > 3)

\* "if k == 0 or max_deletions == 0: k = 0; max_deletions = 0"
NormalizedK(k, max_deletions) ==
    IF k = 0 \/ max_deletions = 0 THEN 0 ELSE k
\* a faulty variant: max_deletions is passed on as given
NormalizedMaxDeletions_bug(k, max_deletions) == max_deletions
NormalizedMaxDeletions(k, max_deletions) ==
    IF k = 0 \/ max_deletions = 0 THEN 0 ELSE max_deletions

\* the struct sasc() hands to compute
Marshal(c) ==
    [N                |-> c.shape[1],
     M                |-> c.shape[2],
     mutations_matrix |-> c.matrix,
     mutation_labels  |-> [j \in 1..c.shape[2] |-> j - 1],
     alphas           |-> Broadcast(c.single_alpha, c.alphas, c.shape[2]),
     single_alpha     |-> IF c.single_alpha THEN 1 ELSE 0,
     beta             |-> c.beta,
     gammas           |-> Broadcast(c.single_gamma, c.gammas, c.shape[2]),
     single_gamma     |-> IF c.single_gamma THEN 1 ELSE 0,
     el_a_variance    |-> c.el_variance[1],
     el_b_variance    |-> c.el_variance[2],
     el_g_variance    |-> c.el_variance[3],
     k                |-> NormalizedK(c.k, c.max_deletions),
     max_deletions    |-> NormalizedMaxDeletions(c.k, c.max_deletions),
     repetitions      |-> c.repetitions,
     start_temp       |-> c.start_temp,
     cooling_rate     |-> c.cooling_rate,
     cores            |-> c.cores,
     monoclonal       |-> IF c.monoclonal THEN 1 ELSE 0]

\* the trees compute holds are named by the pointer they were first bound
\* to and the repetition that made them; n counts the calls of destroy_tree
\* on each, best is the tree best_tree points to (<<>> for NULL)
TreeOf(name, rep) == <<name, rep>>
NoTrees == [n |-> <<>>, best |-> <<>>]

Created(held, t) == [held EXCEPT !.n = (t :> 0) @@ @]
Destroyed(held, t) == [held EXCEPT !.n = [@ EXCEPT ![t] = @ + 1]]

\* no scoring with workers is under way
NoScan == <<>>

NoAnneal == [temp |-> 0, tree |-> NULL, lh |-> 0, best_tree |-> NULL, best_lh |-> 0]

Init ==
    /\ pc = "call"
    /\ call \in Calls \cup ProbeCalls
    /\ arguments = <<>>
    /\ r = 0
    /\ MULTI_ALPHAS = <<>>
    /\ BETA = 0
    /\ MULTI_GAMMAS = <<>>
    /\ el_params = <<>>
    /\ sa = NoAnneal
    /\ best_tree = NULL
    /\ best_loglike = 0
    /\ out = <<>>
    /\ hist = <<>>
    /\ Cj = <<>>
    /\ discarded = 0
    /\ result = <<>>
    /\ mem = [allocated |-> {}, ops |-> <<>>]
    /\ trees = NoTrees
    /\ scan = NoScan

\* sasc(), from its entry to "THE C A L L"
Range(seq) == {seq[i] : i \in 1..Len(seq)}

\* a C buffer: the array `name`, or row i of it for i > 0
Buf(name, i) == <<name, i>>

\* the rows of an array of n rows, as buffers, from row i on
RECURSIVE Rows(_, _, _)
Rows(name, i, n) ==
    IF i > n THEN <<>> ELSE <<Buf(name, i)>> \o Rows(name, i + 1, n)

\* the buffers sasc() allocates before the call, in the order of its mallocs
Allocations(n) ==
    <<Buf("genotype_matrix", 0)>> \o Rows("genotype_matrix", 1, n)
    \o <<Buf("mutation_labels", 0), Buf("alphas", 0), Buf("gammas", 0)>>
    \o <<Buf("gtp_matrix", 0)>> \o Rows("gtp_matrix", 1, n)
    \o <<Buf("ids_of_leaves", 0), Buf("el_alphas", 0), Buf("el_gammas", 0)>>

\* the mallocs that are tested together: alphas with gammas, and
\* ids_of_leaves with el_alphas and el_gammas; any other is tested alone
TestedWith(b) ==
    IF b \in {Buf("alphas", 0), Buf("gammas", 0)}
    THEN {Buf("alphas", 0), Buf("gammas", 0)}
    ELSE IF b \in {Buf("ids_of_leaves", 0), Buf("el_alphas", 0), Buf("el_gammas", 0)}
    THEN {Buf("ids_of_leaves", 0), Buf("el_alphas", 0), Buf("el_gammas", 0)}
    ELSE {b}

\* the buffers held when malloc number f returns NULL and the test after it
\* raises: those before it, and those allocated between it and the test
AllocatedAtFailure(n, f) ==
    LET order == Allocations(n)
    IN  {order[i] : i \in 1..(f - 1)}
        \cup (TestedWith(order[f]) \ {order[f]})

\* the memory operations of sasc()
Read(b) == <<"read", b>>
Free(b) == <<"free", b>>

\* the buffers the unmarshalling reads, in its order: the tree, the leaves
\* of the cells, the expected matrix and its rows, the learned parameters
UnmarshalReads(get_cells, n) ==
    <<Read(Buf("best_tree", 0))>>
    \o (IF get_cells /\ n > 0 THEN <<Read(Buf("ids_of_leaves", 0))>> ELSE <<>>)
    \o [i \in 1..(2 * n) |->
           IF i % 2 = 1 THEN Read(Buf("gtp_matrix", 0))
                        ELSE Read(Buf("gtp_matrix", i \div 2))]
    \o <<Read(Buf("el_gammas", 0)), Read(Buf("el_alphas", 0))>>

\* the finally block of sasc(); free(c_out.gtp_matrix[i]) reads the array
\* for the pointer to its row
FinallyFrees(n) ==
    <<Free(Buf("el_alphas", 0)), Free(Buf("el_gammas", 0))>>
    \o [i \in 1..(2 * n) |->
           IF i % 2 = 1 THEN Read(Buf("gtp_matrix", 0))
                        ELSE Free(Buf("gtp_matrix", i \div 2))]
    \o <<Free(Buf("gtp_matrix", 0)), Free(Buf("ids_of_leaves", 0)),
         Free(Buf("mutation_labels", 0)), Free(Buf("best_tree", 0))>>

\* the cleanup of the older bindings' compute(), done while unmarshalling
ComputeFrees(n) ==
    <<Read(Buf("best_tree", 0)), Free(Buf("best_tree", 0))>>
    \o [i \in 1..(2 * n) |->
           IF i % 2 = 1 THEN Read(Buf("gtp_matrix", i \div 2 + 1))
                        ELSE Free(Buf("gtp_matrix", i \div 2))]
    \o <<Free(Buf("gtp_matrix", 0))>>

sasc_call ==
    /\ pc = "call"
    /\ Validated(call)
    /\ arguments' = Marshal(call)
    /\ mem' = [allocated |-> Range(Allocations(call.shape[1])), ops |-> <<>>]
    /\ pc' = "compute"
    /\ UNCHANGED <<call, r, MULTI_ALPHAS, BETA, MULTI_GAMMAS, el_params, sa,
                   best_tree, best_loglike, out, hist, Cj, discarded, result, trees, scan>>

\* sasc(), when a malloc whose result is tested returns NULL: MemoryError is
\* raised before the try block, with the buffers allocated so far
sasc_memory_error ==
    /\ pc = "call"
    /\ Validated(call)
    /\ \E f \in 1..Len(Allocations(call.shape[1])) :
          /\ Allocations(call.shape[1])[f] # Buf("mutation_labels", 0)
          /\ mem' = [allocated |-> AllocatedAtFailure(call.shape[1], f),
                     ops |-> <<>>]
    /\ pc' = "MemoryError"
    /\ UNCHANGED <<call, arguments, r, MULTI_ALPHAS, BETA, MULTI_GAMMAS,
                   el_params, sa, best_tree, best_loglike, out, hist, Cj,
                   discarded, result, trees, scan>>

\* the malloc of mutation_labels is not tested: when it returns NULL the
\* loop that fills the labels writes through the NULL pointer
sasc_labels_undefined ==
    /\ pc = "call"
    /\ Validated(call)
    /\ call.shape[2] > 0
    /\ mem' = [allocated |-> AllocatedAtFailure(call.shape[1], call.shape[1] + 2),
               ops |-> <<>>]
    /\ pc' = "NullWrite"
    /\ UNCHANGED <<call, arguments, r, MULTI_ALPHAS, BETA, MULTI_GAMMAS,
                   el_params, sa, best_tree, best_loglike, out, hist, Cj,
                   discarded, result, trees, scan>>

\* sasc(), when the validation fails: ValueError is raised before anything
\* is allocated and before compute is called
sasc_raise ==
    /\ pc = "call"
    /\ ~Validated(call)
    /\ pc' = "ValueError"
    /\ UNCHANGED <<call, arguments, r, MULTI_ALPHAS, BETA, MULTI_GAMMAS,
                   el_params, sa, best_tree, best_loglike, out, hist, Cj, discarded, result, mem, trees, scan>>

(***************************************************************************)
(* compute().                                                              *)
(***************************************************************************)
N == arguments.N
M == arguments.M
K == arguments.k
MAX_LOSSES == arguments.max_deletions
MONOCLONAL == arguments.monoclonal
INPUT_MATRIX == arguments.mutations_matrix
START_TEMP == arguments.start_temp
COOLING_RATE == arguments.cooling_rate
REPETITIONS == arguments.repetitions

\* the constraint arguments compute passes to anneal
\* a faulty variant: M is passed in the place of K
AnnealK_bug == M
AnnealK == K
AnnealMaxLosses == MAX_LOSSES
AnnealMonoclonal == MONOCLONAL

\* set_el_params: current values and means start from the priors
set_el_params(alphas, beta, gammas) ==
    [a_mu |-> alphas, a_xs |-> alphas,
     b_mu |-> beta,   b_x  |-> beta,
     g_mu |-> gammas, g_xs |-> gammas]

\* compute, from its entry to the head of the repetition loop
compute_begin ==
    /\ pc = "compute"
    /\ MULTI_ALPHAS' = arguments.alphas
    /\ MULTI_GAMMAS' = arguments.gammas
    /\ BETA' = arguments.beta
    /\ best_tree' = NULL
    /\ best_loglike' = -DBL_MAX
    /\ el_params' = set_el_params(arguments.alphas, arguments.beta, arguments.gammas)
    /\ r' = 0
    /\ pc' = IF 0 < REPETITIONS THEN "repetition" ELSE "output"
    /\ Cj' = [j \in 1..M |-> 0]
    /\ trees' = NoTrees
    /\ UNCHANGED <<call, arguments, sa, out, hist, discarded, result, mem, scan>>


\* the head of a repetition: the random tree, its score, and anneal's start
repetition_begin ==
    /\ pc = "repetition"
    /\ ~(MONOCLONAL # 0 /\ M = 0)
    /\ \E rantree \in Shuffles(M) :
          LET root == InitialTree(rantree, M, MONOCLONAL)
              lh == greedy_tree_loglikelihood(root, INPUT_MATRIX,
                                              MULTI_ALPHAS, BETA).lh
          IN  sa' = [temp      |-> START_TEMP,
                     tree      |-> treecpy(root),
                     lh        |-> lh,
                     best_tree |-> treecpy(root),
                     best_lh   |-> lh]
    /\ trees' = Created(trees, TreeOf("root", r))
    /\ pc' = "anneal"
    /\ UNCHANGED <<call, arguments, r, MULTI_ALPHAS, BETA, MULTI_GAMMAS,
                   el_params, best_tree, best_loglike, out, hist, Cj, discarded,
                   result, mem, scan>>

\* the monoclonal branch reads rantree[0] and MUT_NAMES[rantree[0]] of arrays
\* of length M = 0: from here the behaviour is undefined and is not followed
repetition_begin_undefined ==
    /\ pc = "repetition"
    /\ MONOCLONAL # 0 /\ M = 0
    /\ pc' = "undefined"
    /\ UNCHANGED <<call, arguments, r, MULTI_ALPHAS, BETA, MULTI_GAMMAS,
                   el_params, sa, best_tree, best_loglike, out, hist, Cj, discarded, result, mem, trees, scan>>

\* the loss counters after an accepted edit: an inserted loss node of
\* mutation j counts one up, a removed one counts one down
CountMove(counts, tree, mv) ==
    CASE mv.kind = "insert" ->
             [counts EXCEPT ![mv.x + 1] = @ + 1]
      [] mv.kind = "remove" ->
             [counts EXCEPT ![tree[mv.x].mut_index + 1] = @ - 1]
      [] OTHER -> counts

\* the tracked best of the run after a configuration with score lh is accepted
TrackBest(run, tree, lh) ==
    IF lh > run.best_lh
    THEN [run EXCEPT !.best_tree = treecpy(tree), !.best_lh = lh]
    ELSE run

\* one annealing step whose tree move is accepted
anneal_tree_accept ==
    /\ pc = "anneal"
    /\ sa.temp > MIN_TEMP
    /\ \E mv \in TreeMoves(sa.tree, M) :
          /\ ValidMove(sa.tree, mv, AnnealK, AnnealMaxLosses, AnnealMonoclonal)
          /\ LET new_tree == ApplyMove(sa.tree, mv)
                 new_lh == greedy_tree_loglikelihood(new_tree, INPUT_MATRIX,
                                                     MULTI_ALPHAS, BETA).lh
             IN  /\ MayAccept(new_lh, sa.lh)
                 /\ sa' = [TrackBest(sa, new_tree, new_lh) EXCEPT
                              !.tree = new_tree,
                              !.lh = new_lh,
                              !.temp = Cool(sa.temp, COOLING_RATE)]
                 /\ Cj' = CountMove(Cj, sa.tree, mv)
    /\ discarded' = 0
    /\ UNCHANGED <<pc, call, arguments, r, MULTI_ALPHAS, BETA, MULTI_GAMMAS,
                   el_params, best_tree, best_loglike, out, hist, result, mem, trees, scan>>

\* the perturbations of one error parameter that error learning may propose
ParamMoves ==
    {[kind |-> p, d |-> d] : p \in {"alpha", "beta", "gamma"}, d \in {-1, 1}}

Perturbed(level, d) == level + d

\* the parameter values a perturbation proposes: a single alpha or gamma
\* moves all its entries together
ProposedParams(mv) ==
    [alphas |-> IF mv.kind = "alpha"
                THEN [j \in 1..M |-> Perturbed(MULTI_ALPHAS[j], mv.d)]
                ELSE MULTI_ALPHAS,
     beta   |-> IF mv.kind = "beta" THEN Perturbed(BETA, mv.d) ELSE BETA,
     gammas |-> IF mv.kind = "gamma"
                THEN [j \in 1..M |-> Perturbed(MULTI_GAMMAS[j], mv.d)]
                ELSE MULTI_GAMMAS]

\* a perturbation is proposed only for a parameter whose variance is positive
\* and stays a probability
ValidParamMove(mv) ==
    /\ mv.kind = "alpha" => arguments.el_a_variance > 0 /\ M > 0
    /\ mv.kind = "beta"  => arguments.el_b_variance > 0
    /\ mv.kind = "gamma" => arguments.el_g_variance > 0 /\ M > 0
    /\ \A j \in 1..M : ProposedParams(mv).alphas[j] \in ProbLevels
    /\ \A j \in 1..M : ProposedParams(mv).gammas[j] \in ProbLevels
    /\ ProposedParams(mv).beta \in ProbLevels

\* the caller's structure after an accepted perturbation
\* a faulty variant: MULTI_ALPHAS, MULTI_GAMMAS and BETA are the caller's
\* arrays and field, not copies of them
CallerArguments_bug(args, new) ==
    [args EXCEPT !.alphas = new.alphas, !.beta = new.beta, !.gammas = new.gammas]

\* the perturbation is written to compute's copies MULTI_ALPHAS, BETA and
\* MULTI_GAMMAS; *arguments is not written
CallerArguments(args, new) == args

\* one annealing step whose error-parameter perturbation is accepted
anneal_param_accept ==
    /\ pc = "anneal"
    /\ sa.temp > MIN_TEMP
    /\ \E mv \in ParamMoves :
          /\ ValidParamMove(mv)
          /\ LET new == ProposedParams(mv)
                 new_lh == greedy_tree_loglikelihood(sa.tree, INPUT_MATRIX,
                                                     new.alphas, new.beta).lh
             IN  /\ MayAccept(new_lh, sa.lh)
                 /\ sa' = [TrackBest(sa, sa.tree, new_lh) EXCEPT
                              !.lh = new_lh,
                              !.temp = Cool(sa.temp, COOLING_RATE)]
                 /\ arguments' = CallerArguments(arguments, new)
                 /\ MULTI_ALPHAS' = new.alphas
                 /\ BETA' = new.beta
                 /\ MULTI_GAMMAS' = new.gammas
                 /\ el_params' = set_el_params(new.alphas, new.beta, new.gammas)
    /\ discarded' = 0
    /\ UNCHANGED <<pc, call, r, best_tree, best_loglike, out, hist, Cj, result,
                   mem, trees, scan>>

\* some proposal of this step may be rejected, or no valid proposal exists
Rejectable ==
    \/ \E mv \in TreeMoves(sa.tree, M) :
          /\ ValidMove(sa.tree, mv, AnnealK, AnnealMaxLosses, AnnealMonoclonal)
          /\ MayReject(greedy_tree_loglikelihood(ApplyMove(sa.tree, mv),
                           INPUT_MATRIX, MULTI_ALPHAS, BETA).lh, sa.lh)
    \/ \E mv \in ParamMoves :
          /\ ValidParamMove(mv)
          /\ MayReject(greedy_tree_loglikelihood(sa.tree, INPUT_MATRIX,
                           ProposedParams(mv).alphas, ProposedParams(mv).beta).lh,
                       sa.lh)
    \/ /\ \A mv \in TreeMoves(sa.tree, M) :
             ~ValidMove(sa.tree, mv, AnnealK, AnnealMaxLosses, AnnealMonoclonal)
       /\ \A mv \in ParamMoves : ~ValidParamMove(mv)

\* one annealing step that accepts nothing: the configuration is kept
anneal_reject ==
    /\ pc = "anneal"
    /\ sa.temp > MIN_TEMP
    /\ Rejectable
    /\ sa' = [sa EXCEPT !.temp = Cool(sa.temp, COOLING_RATE)]
    /\ discarded' = 0
    /\ UNCHANGED <<pc, call, arguments, r, MULTI_ALPHAS, BETA, MULTI_GAMMAS,
                   el_params, best_tree, best_loglike, out, hist, Cj, result, mem, trees, scan>>

\* a faulty variant: the discarded edit is left in the tree
AfterDiscard_bug(run, mv) ==
    IF Structural(run.tree, mv)
    THEN [run EXCEPT !.tree = ApplyMove(run.tree, mv)]
    ELSE run

\* the run after a proposal is discarded: nothing of it was touched
AfterDiscard(run, mv) == run

\* a proposal that breaks a constraint or would close a cycle is discarded
\* before it is scored, and another one is drawn within the same step: the
\* temperature is not lowered and the counters count nothing
anneal_discard ==
    /\ pc = "anneal"
    /\ sa.temp > MIN_TEMP
    /\ discarded < MaxDiscards
    /\ \E mv \in TreeMoves(sa.tree, M) :
          /\ ~ValidMove(sa.tree, mv, AnnealK, AnnealMaxLosses, AnnealMonoclonal)
          /\ sa' = AfterDiscard(sa, mv)
    /\ discarded' = discarded + 1
    /\ UNCHANGED <<pc, call, arguments, r, MULTI_ALPHAS, BETA, MULTI_GAMMAS,
                   el_params, best_tree, best_loglike, out, hist, Cj, result, mem, trees, scan>>


\* a faulty variant: the tree of the final temperature state is handed back
AnnealResult_bug(run) == run.tree

\* anneal's result: the best tree observed during the run
AnnealResult(run) == run.best_tree

\* the tree anneal hands back: the snapshot of the best configuration it
\* saw, which is not the tree it was given
AnnealReturned(rep) == TreeOf("anneal", rep)

\* "best_tree = treecpy(ml_tree, ...)" after "destroy_tree(best_tree)" for a
\* best_tree that is not NULL
\* a faulty variant: best_tree is bound to ml_tree itself, not to a copy
Retained_bug(held, rep) ==
    [(IF held.best # <<>> THEN Destroyed(held, held.best) ELSE held)
        EXCEPT !.best = TreeOf("ml_tree", rep)]

Retained(held, rep) ==
    [Created(IF held.best # <<>> THEN Destroyed(held, held.best) ELSE held,
             TreeOf("best", rep))
        EXCEPT !.best = TreeOf("best", rep)]

\* the trees after the rest of a repetition: anneal returns its tree,
\* ml_tree is rebound to a copy of it, the best tree is replaced when the
\* copy scores higher, and root and ml_tree are destroyed
RepetitionTrees(held, rep, improves) ==
    LET returned == Created(held, AnnealReturned(rep))
        copied   == Created(returned, TreeOf("ml_tree", rep))
        kept     == IF improves THEN Retained(copied, rep) ELSE copied
    IN  Destroyed(Destroyed(kept, TreeOf("root", rep)), TreeOf("ml_tree", rep))

\* "if (current_lh > best_loglike)"
Improves(current_lh, best) == current_lh > best

\* the rest of a repetition, once the temperature is at the floor: anneal
\* returns, its tree is copied and re-scored, and the best tree is retained
repetition_end ==
    /\ pc = "anneal"
    /\ ~(sa.temp > MIN_TEMP)
    /\ LET ml_tree == treecpy(AnnealResult(sa))
           current_lh == greedy_tree_loglikelihood(ml_tree, INPUT_MATRIX,
                                                   MULTI_ALPHAS, BETA).lh
       IN  /\ IF Improves(current_lh, best_loglike)
              THEN /\ best_tree' = treecpy(ml_tree)
                   /\ best_loglike' = current_lh
              ELSE UNCHANGED <<best_tree, best_loglike>>
           /\ trees' = RepetitionTrees(trees, r,
                                       Improves(current_lh, best_loglike))
           /\ hist' = Append(hist, [tree       |-> ml_tree,
                                    current_lh |-> current_lh,
                                    alphas     |-> MULTI_ALPHAS,
                                    beta       |-> BETA,
                                    gammas     |-> MULTI_GAMMAS,
                                    retained   |-> Improves(current_lh, best_loglike),
                                    run_best_tree |-> sa.best_tree,
                                    run_best   |-> sa.best_lh,
                                    final_lh   |-> sa.lh])
    /\ r' = r + 1
    /\ pc' = IF r + 1 < REPETITIONS THEN "repetition" ELSE "output"
    /\ sa' = NoAnneal
    /\ UNCHANGED <<call, arguments, MULTI_ALPHAS, BETA, MULTI_GAMMAS,
                   el_params, out, Cj, discarded, result, mem, scan>>

\* the tree and the attachment the output phase reads
OutputTree == best_tree
\* a faulty variant: best_sigma is left at its initial zeros
OutputSigma_bug(scored) == [i \in DOMAIN scored.sigma |-> 0]
OutputSigma(scored) == scored.sigma

\* the learned parameters the output phase copies out
\* a faulty variant: el_alphas is filled from g_xs
OutputAlphas_bug == el_params.g_xs
OutputAlphas == el_params.a_xs
OutputBeta == el_params.b_x
OutputGammas == el_params.g_xs

\* a faulty variant: the tree of the last repetition is scored again
FinalScore_bug ==
    greedy_tree_loglikelihood(hist[Len(hist)].tree, INPUT_MATRIX, MULTI_ALPHAS, BETA)

\* the score and attachment of the best tree, computed after the loop
FinalScore ==
    greedy_tree_loglikelihood(best_tree, INPUT_MATRIX, MULTI_ALPHAS, BETA)

\* the output phase: the best tree is re-scored and the result written
compute_output ==
    /\ pc = "output"
    /\ best_tree # NULL
    /\ LET scored == FinalScore
           best_sigma == OutputSigma(scored)
       IN  out' = [best_tree             |-> best_tree,
                   calculated_likelihood |-> scored.lh,
                   gtp_matrix    |-> [i \in 1..N |->
                       get_genotype_profile(OutputTree, best_sigma[i] + 1, M)],
                   ids_of_leaves |-> [i \in 1..N |->
                       OutputTree[best_sigma[i] + 1].id],
                   best_sigma    |-> best_sigma,
                   el_alphas     |-> OutputAlphas,
                   el_beta       |-> OutputBeta,
                   el_gammas     |-> OutputGammas]
    /\ mem' = [mem EXCEPT !.allocated = @ \cup {Buf("best_tree", 0)}]
    /\ pc' = "done"
    /\ UNCHANGED <<call, arguments, r, MULTI_ALPHAS, BETA, MULTI_GAMMAS,
                   el_params, sa, best_tree, best_loglike, hist, Cj, discarded, result, trees, scan>>

(***************************************************************************)
(* The unmarshalling of compute's result.                                  *)
(***************************************************************************)
\* str(node.id), the key of a tree node in the graph, and f'cell: {cell}',
\* the key of the node of the cell at position i of cell_labels
NodeKey(id) == <<"node", id>>
CellKey(i) == <<"cell", i>>

\* node.first_child: the first of the children of i, 0 for NULL
FirstChild(tree, i) ==
    IF Children(tree, i) = {} THEN 0 ELSE Min(Children(tree, i))

\* a faulty variant: no node has a sibling
NextSibling_bug(tree, i) == 0

\* node.next_sibling: the child of i's parent that follows i, 0 for NULL
NextSibling(tree, i) ==
    LET later == {c \in Children(tree, tree[i].parent) : c > i}
    IN  IF tree[i].parent = 0 \/ later = {} THEN 0 ELSE Min(later)

\* nx.DiGraph(): no node, no edge; red holds the nodes with the red fill,
\* loss those with the attribute loss = 1, added counts the add_node calls
EmptyGraph == [nodes |-> {}, edges |-> {}, red |-> {}, loss |-> {}, added |-> 0]

\* _unmarshal_tree(node, G): the siblings, then the children, then the node
\* itself, filled red if it is a loss, and the edge from its parent
RECURSIVE unmarshal_tree(_, _, _)
unmarshal_tree(tree, node, G) ==
    IF node = 0 THEN G
    ELSE LET siblings == unmarshal_tree(tree, NextSibling(tree, node), G)
             children == unmarshal_tree(tree, FirstChild(tree, node), siblings)
             key      == NodeKey(tree[node].id)
             added    == [children EXCEPT
                             !.nodes = @ \cup {key},
                             !.red   = IF tree[node].loss = 1
                                       THEN @ \cup {key} ELSE @,
                             !.added = @ + 1]
         IN  IF tree[node].parent # 0
             THEN LET parent == NodeKey(tree[tree[node].parent].id)
                  IN  [added EXCEPT !.nodes = @ \cup {parent, key},
                                    !.edges = @ \cup {<<parent, key>>}]
             ELSE added

\* unmarshal_tree(root, G) of the oldest binding: each child of root is
\* added with its loss attribute, then the edge to it, then its subtree
RECURSIVE unmarshal_tree_sascpy(_, _, _, _)
unmarshal_tree_sascpy(tree, root, curr_child, G) ==
    IF curr_child = 0 THEN G
    ELSE LET key   == NodeKey(tree[curr_child].id)
             added == [G EXCEPT
                          !.nodes = @ \cup {NodeKey(tree[root].id), key},
                          !.loss  = IF tree[curr_child].loss = 1
                                    THEN @ \cup {key} ELSE @,
                          !.edges = @ \cup {<<NodeKey(tree[root].id), key>>},
                          !.added = @ + 1]
             below == unmarshal_tree_sascpy(tree, curr_child,
                                            FirstChild(tree, curr_child), added)
         IN  unmarshal_tree_sascpy(tree, root, NextSibling(tree, curr_child), below)

\* the graph sasc() builds from the root of c_out.best_tree
UnmarshalGraph(tree) == unmarshal_tree(tree, 1, EmptyGraph)

\* the graph the oldest binding builds: the root is added first
UnmarshalGraphOfCompute(tree) ==
    unmarshal_tree_sascpy(tree, 1, FirstChild(tree, 1),
        [EmptyGraph EXCEPT !.nodes = {NodeKey(tree[1].id)},
                           !.loss  = IF tree[1].loss = 1
                                     THEN {NodeKey(tree[1].id)} ELSE {},
                           !.added = 1])

\* the nodes and edges of the unmarshalled tree
UnmarshalTree(tree) ==
    [nodes |-> UnmarshalGraph(tree).nodes, edges |-> UnmarshalGraph(tree).edges]

\* a faulty variant: the edge runs from v to u
AddEdge_bug(G, u, v) ==
    [nodes |-> G.nodes \cup {u, v}, edges |-> G.edges \cup {<<v, u>>}]

\* networkx add_edge(u, v): the edge, and both ends as nodes if missing
AddEdge(G, u, v) ==
    [nodes |-> G.nodes \cup {u, v}, edges |-> G.edges \cup {<<u, v>>}]

\* "for i, cell in enumerate(cell_labels)": the cells from position i on
RECURSIVE AddCells(_, _, _, _)
AddCells(G, ids_of_leaves, i, n) ==
    IF i > n THEN G
    ELSE LET with_node == [G EXCEPT !.nodes = @ \cup {CellKey(i)}]
         IN  AddCells(AddEdge(with_node, NodeKey(ids_of_leaves[i]), CellKey(i)),
                      ids_of_leaves, i + 1, n)

\* the ids the cells are hung under
CellParents(c_out) == c_out.ids_of_leaves

InferredTree(c_out, get_cells, n) ==
    IF get_cells
    THEN AddCells(UnmarshalTree(c_out.best_tree), CellParents(c_out), 1, n)
    ELSE UnmarshalTree(c_out.best_tree)

\* the entry of a list made by [None] * len that was never assigned
None == -1

\* "el_alphas = [None] * M; el_gammas = [None] * M" and the loop over range(M)
ElLists(c_out, n, m) ==
    [el_alphas |-> [j \in 1..m |-> c_out.el_alphas[j]],
     el_gammas |-> [j \in 1..m |-> c_out.el_gammas[j]]]

\* the older bindings: "el_gammas = [None] * N", filled by the loop over
\* range(M); the assignment el_gammas[ix] needs ix < N
ElListsOfCompute(c_out, n, m) ==
    [el_alphas |-> [j \in 1..m |-> c_out.el_alphas[j]],
     el_gammas |-> [j \in 1..n |-> IF j <= m THEN c_out.el_gammas[j] ELSE None]]

\* sasc(), from the return of compute to its own return
sasc_return ==
    /\ pc = "done"
    /\ \E get_cells \in BOOLEAN :
          LET el == ElLists(out, N, M)
          IN  /\ result' = [binding          |-> "sasc",
                             get_cells        |-> get_cells,
                             inferred_tree    |-> InferredTree(out, get_cells, N),
                             node_marks       |-> UnmarshalGraph(out.best_tree),
                             expected_genotype_matrix |->
                                 [i \in 1..N |-> [j \in 1..M |-> out.gtp_matrix[i][j]]],
                             inferred_alphas  |-> el.el_alphas,
                             inferred_beta    |-> out.el_beta,
                             inferred_gammas  |-> el.el_gammas]
              /\ mem' = [mem EXCEPT !.ops =
                             UnmarshalReads(get_cells, N) \o FinallyFrees(N)]
    /\ pc' = "returned"
    /\ UNCHANGED <<call, arguments, r, MULTI_ALPHAS, BETA, MULTI_GAMMAS,
                   el_params, sa, best_tree, best_loglike, out, hist, Cj,
                   discarded, trees, scan>>

\* sasc(), when the unmarshalling raises once the tree was read (a label of
\* the tree cannot be looked up): the finally block runs and the exception
\* goes on to the caller
sasc_unmarshal_error ==
    /\ pc = "done"
    /\ mem' = [mem EXCEPT !.ops =
                  SubSeq(UnmarshalReads(FALSE, N), 1, 1) \o FinallyFrees(N)]
    /\ pc' = "Exception"
    /\ UNCHANGED <<call, arguments, r, MULTI_ALPHAS, BETA, MULTI_GAMMAS,
                   el_params, sa, best_tree, best_loglike, out, hist, Cj,
                   discarded, result, trees, scan>>

\* compute() of the older bindings, from the return of the C call to its
\* own return: with fewer cells than mutations the assignment
\* el_gammas[N] raises IndexError
compute_return ==
    /\ pc = "done"
    /\ mem' = [mem EXCEPT !.ops = ComputeFrees(N)]
    /\ IF N < M
       THEN /\ pc' = "IndexError"
            /\ UNCHANGED result
       ELSE /\ LET el == ElListsOfCompute(out, N, M)
               IN  result' = [binding          |-> "compute",
                              get_cells        |-> FALSE,
                              inferred_tree    |->
                                  [nodes |-> UnmarshalGraphOfCompute(out.best_tree).nodes,
                                   edges |-> UnmarshalGraphOfCompute(out.best_tree).edges],
                              node_marks       |-> UnmarshalGraphOfCompute(out.best_tree),
                              expected_genotype_matrix |->
                                  [i \in 1..N |-> [j \in 1..M |-> out.gtp_matrix[i][j]]],
                              inferred_alphas  |-> el.el_alphas,
                              inferred_beta    |-> out.el_beta,
                              inferred_gammas  |-> el.el_gammas]
            /\ pc' = "returned"
    /\ UNCHANGED <<call, arguments, r, MULTI_ALPHAS, BETA, MULTI_GAMMAS,
                   el_params, sa, best_tree, best_loglike, out, hist, Cj,
                   discarded, trees, scan>>

\* no repetition scored above -DBL_MAX: best_tree is NULL and best_tree_vec
\* empty, and the output phase dereferences the NULL node of cell 0
compute_output_undefined ==
    /\ pc = "output"
    /\ best_tree = NULL
    /\ pc' = "undefined"
    /\ UNCHANGED <<call, arguments, r, MULTI_ALPHAS, BETA, MULTI_GAMMAS,
                   el_params, sa, best_tree, best_loglike, out, hist, Cj, discarded, result, mem, trees, scan>>

Next ==
    \/ sasc_call
    \/ sasc_raise
    \/ sasc_memory_error
    \/ sasc_labels_undefined
    \/ compute_begin
    \/ repetition_begin
    \/ repetition_begin_undefined
    \/ anneal_tree_accept
    \/ anneal_param_accept
    \/ anneal_reject
    \/ anneal_discard
    \/ repetition_end
    \/ compute_output
    \/ compute_output_undefined
    \/ sasc_return
    \/ sasc_unmarshal_error
    \/ compute_return

Spec == Init /\ [][Next]_vars

(***************************************************************************)
(* The per-cell maximization of greedy_tree_loglikelihood with a pool of   *)
(* `cores` workers, one scoring at a time.                                 *)
(***************************************************************************)
\* the trees that are scored here: the initial trees of MaxM mutations and
\* one of them with a loss node
ScoredTrees ==
    {InitialTree(rantree, MaxM, mono) : rantree \in Shuffles(MaxM), mono \in {0, 1}}
    \cup {InsertLoss(InitialTree([j \in 1..MaxM |-> j - 1], MaxM, 0), 0, 2, 0)}

IdleWorker == [cell |-> 0, node |-> 0, best_node |-> 0, best_lh |-> 0]

\* a scoring that is about to start: nothing claimed, every slot empty
ScanOf(tree, matrix, alphas, beta, cores) ==
    [tree    |-> tree,
     matrix  |-> matrix,
     alphas  |-> alphas,
     beta    |-> beta,
     cores   |-> cores,
     claimed |-> {},
     written |-> {},
     sigma   |-> [i \in 1..Len(matrix) |-> 0],
     cell_lh |-> [i \in 1..Len(matrix) |-> 0],
     workers |-> [w \in 1..cores |-> IdleWorker],
     joined  |-> FALSE,
     total   |-> 0]

ScorerInit ==
    /\ pc = "scoring"
    /\ call = BaseCall(MaxN, MaxM)
    /\ arguments = <<>>
    /\ r = 0
    /\ MULTI_ALPHAS = <<>>
    /\ BETA = 0
    /\ MULTI_GAMMAS = <<>>
    /\ el_params = <<>>
    /\ sa = NoAnneal
    /\ best_tree = NULL
    /\ best_loglike = 0
    /\ out = <<>>
    /\ hist = <<>>
    /\ Cj = <<>>
    /\ discarded = 0
    /\ result = <<>>
    /\ mem = [allocated |-> {}, ops |-> <<>>]
    /\ trees = NoTrees
    /\ scan \in {ScanOf(tree, matrix, [j \in 1..MaxM |-> 1], beta, cores) :
                    tree \in ScoredTrees,
                    matrix \in {MatrixA(MaxN, MaxM), MatrixB(MaxN, MaxM)},
                    beta \in {0, 1},
                    cores \in 1..MaxCores}

\* a faulty variant: every worker writes the first slot
SlotOf_bug(w, cell) == 1

\* the slot of the attachment and score outputs a worker writes for its cell
SlotOf(w, cell) == cell

\* is node a better attachment than the best one of the scan so far
BetterNode(tree, node, lh, best_node, best_lh) ==
    \/ best_node = 0
    \/ lh > best_lh
    \/ lh = best_lh /\ tree[node].id < tree[best_node].id

\* an idle worker takes a cell nobody has taken
scorer_claim ==
    /\ pc = "scoring"
    /\ \E w \in 1..scan.cores : \E i \in (1..Len(scan.matrix)) \ scan.claimed :
          /\ scan.workers[w].cell = 0
          /\ scan' = [scan EXCEPT
                         !.claimed = @ \cup {i},
                         !.workers[w] = [IdleWorker EXCEPT !.cell = i, !.node = 1]]
    /\ UNCHANGED <<pc, call, arguments, r, MULTI_ALPHAS, BETA, MULTI_GAMMAS,
                   el_params, sa, best_tree, best_loglike, out, hist, Cj,
                   discarded, result, mem, trees>>

\* a worker scores the next node of the tree against its cell
scorer_scan ==
    /\ pc = "scoring"
    /\ \E w \in 1..scan.cores :
          LET me == scan.workers[w]
          IN  /\ me.cell # 0
              /\ me.node <= Len(scan.tree)
              /\ LET lh == CellNodeLh(scan.tree, me.node, scan.matrix[me.cell],
                                      scan.alphas, scan.beta)
                 IN  scan' = [scan EXCEPT !.workers[w] =
                        IF BetterNode(scan.tree, me.node, lh, me.best_node, me.best_lh)
                        THEN [me EXCEPT !.node = @ + 1,
                                        !.best_node = me.node,
                                        !.best_lh = lh]
                        ELSE [me EXCEPT !.node = @ + 1]]
    /\ UNCHANGED <<pc, call, arguments, r, MULTI_ALPHAS, BETA, MULTI_GAMMAS,
                   el_params, sa, best_tree, best_loglike, out, hist, Cj,
                   discarded, result, mem, trees>>

\* a worker that has scored every node writes the slot of its cell
scorer_write ==
    /\ pc = "scoring"
    /\ \E w \in 1..scan.cores :
          LET me == scan.workers[w]
          IN  /\ me.cell # 0
              /\ me.node > Len(scan.tree)
              /\ scan' = [scan EXCEPT
                             !.sigma[SlotOf(w, me.cell)] = me.best_node - 1,
                             !.cell_lh[SlotOf(w, me.cell)] = me.best_lh,
                             !.written = @ \cup {me.cell},
                             !.workers[w] = IdleWorker]
    /\ UNCHANGED <<pc, call, arguments, r, MULTI_ALPHAS, BETA, MULTI_GAMMAS,
                   el_params, sa, best_tree, best_loglike, out, hist, Cj,
                   discarded, result, mem, trees>>

\* every cell is written: the workers are joined and the slots summed
scorer_join ==
    /\ pc = "scoring"
    /\ scan.written = 1..Len(scan.matrix)
    /\ scan' = [scan EXCEPT !.joined = TRUE, !.total = SumLh(scan.cell_lh, 1)]
    /\ pc' = "scored"
    /\ UNCHANGED <<call, arguments, r, MULTI_ALPHAS, BETA, MULTI_GAMMAS,
                   el_params, sa, best_tree, best_loglike, out, hist, Cj,
                   discarded, result, mem, trees>>

ScorerNext ==
    \/ scorer_claim
    \/ scorer_scan
    \/ scorer_write
    \/ scorer_join

ScorerSpec == ScorerInit /\ [][ScorerNext]_vars


(***************************************************************************)
(* Definitions shared by the properties.                                   *)
(***************************************************************************)
AfterLoop == pc \in {"output", "done"}
Started == pc \notin {"call", "compute", "ValueError", "MemoryError", "NullWrite",
                       "scoring", "scored"}
Returned == pc \in {"returned", "IndexError"}

\* the repetitions (1-based) whose tree was retained as the best
RetainedReps == {n \in 1..Len(hist) : hist[n].retained}

\* the first repetition whose re-scored log-likelihood is the maximum
FirstBestRep ==
    Min({n \in 1..Len(hist) :
            \A o \in 1..Len(hist) : hist[o].current_lh <= hist[n].current_lh})

\* the trees the state holds
LiveTrees ==
    (IF pc = "anneal" THEN {sa.tree, sa.best_tree} ELSE {})
    \cup (IF Started /\ best_tree # NULL THEN {best_tree} ELSE {})
    \cup (IF pc = "done" THEN {out.best_tree} ELSE {})
    \cup {hist[n].tree : n \in 1..Len(hist)}

\* the trees the next annealing step may score
ProposedTrees ==
    IF pc = "anneal" /\ sa.temp > MIN_TEMP
    THEN {ApplyMove(sa.tree, mv) : mv \in
            {m \in TreeMoves(sa.tree, M) :
                ValidMove(sa.tree, m, AnnealK, AnnealMaxLosses, AnnealMonoclonal)}}
    ELSE {}

\* the profile of a node read off its path: a mutation is present when its
\* last event on the path is a gain
PathProfile(tree, i, m) ==
    LET path == PathTo(tree, i)
        events(j) == {n \in 1..Len(path) : tree[path[n]].mut_index = j}
    IN  [j \in 1..m |->
            IF events(j - 1) = {} THEN 0
            ELSE IF tree[path[Max(events(j - 1))]].loss = 1 THEN 0 ELSE 1]


(***************************************************************************)
(* The retained best tree and the returned score.                          *)
(***************************************************************************)
\* C1: after the repetition loop the retained best tree is the tree of the
\* first repetition whose re-scored log-likelihood is the maximum over all
\* repetitions (a tie keeps the earlier tree).
C1_FirstBestRetained ==
    AfterLoop =>
        /\ RetainedReps # {}
        /\ Max(RetainedReps) = FirstBestRep
        /\ best_tree = hist[FirstBestRep].tree

\* C2: the score returned after all repetitions is at least the score of the
\* first repetition, which is what a run of one repetition returns.
C2_MoreRestartsNeverWorse ==
    pc = "done" => out.calculated_likelihood >= hist[1].current_lh

\* C6: the returned score is the score under which the returned best tree
\* was selected, the best_loglike retained at the end of the loop.
C6_ReturnedScoreIsBestLoglike ==
    pc = "done" => out.calculated_likelihood = best_loglike

\* C7: the returned learned error parameters are those of the repetition
\* that produced the returned best tree.
C7_ReturnedParamsOfBestRep ==
    pc = "done" =>
        /\ out.el_alphas = hist[Max(RetainedReps)].alphas
        /\ out.el_beta = hist[Max(RetainedReps)].beta
        /\ out.el_gammas = hist[Max(RetainedReps)].gammas

\* C8: at the start of every repetition the error parameters, current and
\* mean values, are the externally supplied priors.
C8_ParamsResetEachRepetition ==
    pc = "repetition" =>
        /\ MULTI_ALPHAS = arguments.alphas
        /\ BETA = arguments.beta
        /\ MULTI_GAMMAS = arguments.gammas
        /\ el_params = set_el_params(arguments.alphas, arguments.beta,
                                     arguments.gammas)

(***************************************************************************)
(* The constraints on the trees.                                           *)
(***************************************************************************)
\* the loss nodes of one mutation on one path are at most k, those of the
\* whole tree at most max_deletions
WithinLossBounds(tree, k, max_deletions) ==
    /\ \A i \in 1..Len(tree) : \A j \in 0..(M - 1) :
          Cardinality(LossesOnPath(tree, i, j)) <= k
    /\ Cardinality(LossNodes(tree)) <= max_deletions

\* C3: every tree that exists after a completed annealing step, and every
\* tree compute scores or returns, has at most k loss nodes of any mutation
\* on any root-to-node path and at most max_deletions loss nodes in all.
C3_LossBounds ==
    Started =>
        \A t \in LiveTrees \cup ProposedTrees :
            WithinLossBounds(t, arguments.k, arguments.max_deletions)

\* an annealing step has been accepted whose tree is at the deletion budget
C3_Witness ==
    /\ pc = "anneal"
    /\ sa.temp < START_TEMP
    /\ MAX_LOSSES >= 1
    /\ Cardinality(LossNodes(sa.tree)) = MAX_LOSSES

\* C4: a call with k = 0 returns a tree without loss nodes, whatever
\* max_deletions is: the binding passes k = 0 and max_deletions = 0 whenever
\* k = 0 or max_deletions = 0, and no tree of the run has a loss node.
C4_KZeroNoLoss ==
    /\ Started /\ (call.k = 0 \/ call.max_deletions = 0) =>
          arguments.k = 0 /\ arguments.max_deletions = 0
    /\ Started /\ call.k = 0 =>
          \A t \in LiveTrees \cup ProposedTrees : LossNodes(t) = {}

\* a call with k = 0 and a positive max_deletions has annealed and returned
C4_Witness ==
    /\ pc = "done"
    /\ call.k = 0 /\ call.max_deletions > 0
    /\ call.start_temp > MIN_TEMP
    /\ Len(out.best_tree) > 2

\* C5: when monoclonal is set the germline root has exactly one child in
\* every tree that is scored: the initial tree, the trees of the annealing
\* steps, the re-scored result of a repetition and the returned best tree.
C5_Monoclonal ==
    Started /\ arguments.monoclonal # 0 =>
        \A t \in LiveTrees \cup ProposedTrees : Cardinality(Children(t, 1)) = 1

\* a monoclonal run over two mutations has returned a tree it changed
C5_Witness ==
    /\ pc = "done"
    /\ arguments.monoclonal # 0
    /\ M >= 2
    /\ Len(out.best_tree) > M + 1

(***************************************************************************)
(* The output phase.                                                       *)
(***************************************************************************)
\* the attachment of scoring the returned tree after the last repetition
FinalAttachment ==
    greedy_tree_loglikelihood(out.best_tree, INPUT_MATRIX, MULTI_ALPHAS, BETA).sigma

\* C9: row i of the returned expected genotype matrix is the genotype
\* profile of the node of the returned best tree to which the final
\* attachment, of re-scoring that tree, assigns cell i.
C9_ExpectedMatrix ==
    pc = "done" =>
        /\ Len(out.gtp_matrix) = N
        /\ out.best_tree = best_tree
        /\ \A i \in 1..N :
              out.gtp_matrix[i] = PathProfile(out.best_tree, FinalAttachment[i] + 1, M)

\* two repetitions have run, the first one gave the returned tree, the last
\* one another tree, and some cell is attached below the root
C9_Witness ==
    /\ pc = "done"
    /\ Len(hist) = 2
    /\ RetainedReps = {1}
    /\ hist[2].tree # out.best_tree
    /\ \E i \in 1..N : out.best_sigma[i] # 0 /\ out.gtp_matrix[i] # [j \in 1..M |-> 0]

(***************************************************************************)
(* One annealing run.                                                      *)
(***************************************************************************)
\* one step of a run keeps or raises the tracked best score, and the end of
\* the run hands back the tree tracked with it
TrackedBestStep ==
    /\ pc = "anneal" /\ pc' = "anneal" => sa'.best_lh >= sa.best_lh
    /\ pc = "anneal" /\ pc' = "anneal" => sa'.best_lh >= sa'.lh
    /\ pc = "anneal" /\ pc' # "anneal" =>
          /\ hist'[Len(hist')].tree = sa.best_tree
          /\ hist'[Len(hist')].run_best >= hist'[Len(hist')].final_lh

\* C10: within one annealing run the tracked best score never decreases,
\* whatever is accepted or rejected, and the run hands back the tree that
\* had that best score, not the tree of the final temperature state.
C10_TrackedBest == [][TrackedBestStep]_vars

\* a run has ended whose final configuration scored below its tracked best
C10_Witness ==
    /\ Len(hist) >= 1
    /\ hist[Len(hist)].final_lh < hist[Len(hist)].run_best

(***************************************************************************)
(* The validation of the binding.                                          *)
(***************************************************************************)
\* the arguments the contract of sasc() excludes
OutOfContract(c) ==
    \/ c.beta < 0 \/ c.beta > 3
    \/ \E i \in 1..3 : c.el_variance[i] < 0
    \/ c.frac.k # 0 \/ c.k < 0
    \/ c.frac.max_deletions # 0 \/ c.max_deletions < 0
    \/ c.repetitions < 1
    \/ c.start_temp < 0
    \/ c.cooling_rate <= 0
    \/ c.cores < 1
    \/ ~c.single_alpha /\ Len(c.alphas) # c.shape[2]
    \/ ~c.single_gamma /\ Len(c.gammas) # c.shape[2]
    \/ \E j \in 1..Len(c.alphas) : c.alphas[j] < 0 \/ c.alphas[j] > 3
    \/ \E j \in 1..Len(c.gammas) : c.gammas[j] < 0 \/ c.gammas[j] > 3

\* C11: a call whose arguments are out of the contract (beta, an alpha or a
\* gamma outside [0, 1], a negative variance, a fractional or negative k or
\* max_deletions, repetitions < 1, start_temp < 0, cooling_rate <= 0,
\* cores < 1, a list of the wrong length) never gets past the validation:
\* it ends in ValueError and compute is not called.
C11_ValidationBeforeCore ==
    OutOfContract(call) => pc \in {"call", "ValueError"}

(***************************************************************************)
(* Degenerate and smallest inputs.                                         *)
(***************************************************************************)
\* C12: with M = 0 or N = 0 compute returns normally, with the germline
\* root alone as the tree when M = 0 and with an expected matrix without
\* entries, in monoclonal and in non-monoclonal mode; no step reads an
\* element of an empty array.
C12_DegenerateInput ==
    Started /\ (N = 0 \/ M = 0) =>
        /\ pc # "undefined"
        /\ pc = "done" =>
              /\ M = 0 => out.best_tree = Germline
              /\ out.gtp_matrix = [i \in 1..N |-> [j \in 1..M |-> 0]]

\* the germline with one child, the gain of the only mutation, every other
\* node being a loss node
SingleGain(t) ==
    /\ t[1] = Germline[1]
    /\ \E c \in 2..Len(t) :
          /\ Children(t, 1) = {c}
          /\ t[c].loss = 0 /\ t[c].mut_index = 0
          /\ \A i \in 2..Len(t) : i # c => t[i].loss = 1 /\ t[i].mut_index = 0

\* the attachment of scoring t assigns each of the N cells to a node of t
AttachesAllCells(t) ==
    LET sigma == greedy_tree_loglikelihood(t, INPUT_MATRIX, MULTI_ALPHAS, BETA).sigma
    IN  /\ Len(sigma) = N
        /\ \A i \in 1..N : sigma[i] \in 0..(Len(t) - 1)

C14_ParamsFixedWithoutLearning ==
    Started /\ call.el_variance = <<0, 0, 0>> =>
        /\ MULTI_ALPHAS = Broadcast(call.single_alpha, call.alphas, M)
        /\ BETA = call.beta
        /\ MULTI_GAMMAS = Broadcast(call.single_gamma, call.gammas, M)
        /\ pc = "done" =>
              /\ out.el_alphas = Broadcast(call.single_alpha, call.alphas, M)
              /\ out.el_beta = call.beta
              /\ out.el_gammas = Broadcast(call.single_gamma, call.gammas, M)

\* a call without learning has returned after two repetitions that annealed
C14_Witness ==
    /\ pc = "done"
    /\ call.el_variance = <<0, 0, 0>>
    /\ Len(hist) = 2
    /\ START_TEMP > MIN_TEMP
    /\ M >= 1
    /\ out.el_alphas # out.el_gammas

(***************************************************************************)
(* The attachment scorer.                                                  *)
(***************************************************************************)
\* the log-likelihood of a cell's row against the node at vector index
\* node - 1, entry by entry against the profile read off the node's path
CellAgainstNode(t, node, row) ==
    SumLh([j \in 1..Len(row) |->
             EntryLh(row[j], PathProfile(t, node, Len(row))[j],
                     MULTI_ALPHAS[j], BETA)], 1)

\* the total recomputed from an attachment
TotalOfAttachment(t, sigma) ==
    SumLh([i \in 1..N |-> CellAgainstNode(t, sigma[i] + 1, INPUT_MATRIX[i])], 1)

\* the sum over the cells of the maximum over the nodes
SumOfCellMaxima(t) ==
    SumLh([i \in 1..N |->
             Max({CellAgainstNode(t, node, INPUT_MATRIX[i]) : node \in 1..Len(t)})], 1)

\* the repetition whose tree is the retained best one
BestRep == Max(RetainedReps)

RankWidth == (MaxStartTemp + 1) * (MaxDiscards + 1) + 3

\* a measure of the work compute still has to do: the repetitions to come,
\* and within the annealing run the temperature above MIN_TEMP
Rank ==
    CASE pc = "compute"    -> (REPETITIONS + 1) * RankWidth
      [] pc = "repetition" -> (REPETITIONS - r) * RankWidth
      [] pc = "anneal"     -> (REPETITIONS - r - 1) * RankWidth + 2
                                + (IF sa.temp > MIN_TEMP
                                   THEN sa.temp * (MaxDiscards + 1)
                                        + (MaxDiscards - discarded)
                                   ELSE 0)
      [] pc = "output"     -> 1
      [] OTHER             -> 0

\* a step of compute lowers the measure, which is never negative; an
\* annealing step lowers the temperature, a discarded proposal leaves one
\* proposal less to draw; the result is written after
\* exactly `repetitions` repetitions
TerminationStep ==
    pc \in {"compute", "repetition", "anneal", "output"} =>
        /\ Rank' < Rank /\ Rank' >= 0
        /\ pc = "anneal" /\ pc' = "anneal" =>
              sa'.temp < sa.temp \/ (sa' = sa /\ discarded' > discarded)
        /\ pc' = "done" => r' = REPETITIONS /\ Len(hist') = REPETITIONS

\* C16: every call of compute on validated input comes to its end, each
\* annealing run stopping when the cooled temperature is no longer above
\* MIN_TEMP, and the result is written after exactly `repetitions`
\* repetitions.
C16_ComputeTerminates == [][TerminationStep]_vars

(***************************************************************************)
(* C17: invalid moves.                                                     *)
(***************************************************************************)
\* the edits of the tree that are proposed and discarded
InvalidMoves ==
    {mv \in TreeMoves(sa.tree, M) :
        ~ValidMove(sa.tree, mv, AnnealK, AnnealMaxLosses, AnnealMonoclonal)}

\* C17: a step that discards an invalid move (one that would exceed k or
\* max_deletions, break the monoclonal constraint or hang a node beneath its
\* own descendant) leaves the tree, the loss counters, the score, the
\* temperature and the tracked best of the run and of compute as they were;
\* the run is still inside the same annealing step, which waits for another
\* proposal, no failure is raised, and the tree it holds satisfies the
\* constraints.
C17_InvalidMoveDiscarded ==
    [][discarded' > discarded =>
         /\ InvalidMoves # {}
         /\ sa'.tree = sa.tree
         /\ Cj' = Cj
         /\ sa'.lh = sa.lh
         /\ sa'.best_tree = sa.best_tree /\ sa'.best_lh = sa.best_lh
         /\ sa'.temp = sa.temp /\ sa'.temp > MIN_TEMP
         /\ best_tree' = best_tree /\ best_loglike' = best_loglike
         /\ pc' = "anneal"
         /\ ValidTree(sa'.tree, K, MAX_LOSSES, MONOCLONAL)]_vars

\* a proposal was discarded in a run whose tree holds a loss node, where
\* both a relocation beneath the node's own descendant and an edit that
\* breaks a constraint are among the invalid moves
C17_Witness ==
    /\ pc = "anneal"
    /\ discarded > 0
    /\ LossNodes(sa.tree) # {}
    /\ \E mv \in InvalidMoves : ~Structural(sa.tree, mv)
    /\ \E mv \in InvalidMoves : Structural(sa.tree, mv)

(***************************************************************************)
(* C18: the learned error parameters that are returned.                    *)
(***************************************************************************)
\* C18: whenever a binding has handed the result of compute back, for every
\* N and M, the returned lists of inferred false-negative rates and of
\* inferred prior loss probabilities have M entries each, and entry j is the
\* value compute learned for mutation j.
C18_LearnedParamsPerMutation ==
    Returned =>
        /\ pc = "returned"
        /\ Len(result.inferred_alphas) = M
        /\ Len(result.inferred_gammas) = M
        /\ \A j \in 1..M :
              /\ result.inferred_alphas[j] = out.el_alphas[j]
              /\ result.inferred_gammas[j] = out.el_gammas[j]

(***************************************************************************)
(* C19: the cells in the returned tree.                                    *)
(***************************************************************************)
\* the nodes of a graph that stand for cells, and the edges into a node
CellNodesOf(G) == {v \in G.nodes : v[1] = "cell"}
EdgesInto(G, v) == {e \in G.edges : e[2] = v}

SascExit ==
    \/ pc \in {"MemoryError", "Exception"}
    \/ pc = "returned" /\ result.binding = "sasc"

\* the positions of mem.ops that free b
FreesOf(b) == {n \in 1..Len(mem.ops) : mem.ops[n] = Free(b)}

\* C20: on every exit of sasc() after its allocations began (return,
\* MemoryError while allocating, exception while unmarshalling) each buffer
\* it allocated and the tree compute handed out was freed exactly once,
\* nothing was freed that was not allocated, and no buffer was read after
\* it was freed.
C20_NoLeak ==
    SascExit =>
        /\ \A b \in mem.allocated : Cardinality(FreesOf(b)) = 1
        /\ \A n \in 1..Len(mem.ops) :
              /\ mem.ops[n][2] \in mem.allocated
              /\ mem.ops[n][1] = "read" =>
                    \A f \in FreesOf(mem.ops[n][2]) : n < f

(***************************************************************************)
(* C21: the life of the trees of compute.                                  *)
(***************************************************************************)
\* the trees that were made and not destroyed
LiveTreesOf(held) == {t \in DOMAIN held.n : held.n[t] = 0}

\* C21: between two repetitions and after the loop every tree made in a
\* finished repetition (root, the tree anneal returned, the copy ml_tree)
\* was destroyed exactly once, every best tree that was superseded was
\* destroyed exactly once, no tree was destroyed twice, and once compute has
\* written its result the only tree still live is the best tree.
C21_TreesDestroyedOnce ==
    pc \in {"repetition", "output", "done"} =>
        /\ \A t \in DOMAIN trees.n :
              trees.n[t] = (IF t = trees.best THEN 0 ELSE 1)
        /\ pc = "done" => LiveTreesOf(trees) = {trees.best}

(***************************************************************************)
(* C22: the retained best tree is a copy of its own.                       *)
(***************************************************************************)
\* C22: whenever compute holds a best tree, in the repetition that retained
\* it and in every later repetition and step of annealing, best_tree is a
\* tree of its own (not root, not ml_tree, not the tree anneal returned),
\* it was never destroyed, and it is node for node the tree that was scored
\* when it was retained, with the score it was retained under; the tree
\* compute writes to its result is that tree.
C22_BestTreeIndependent ==
    (pc \in {"repetition", "anneal", "output", "done"} /\ best_tree # NULL) =>
        /\ trees.best = TreeOf("best", BestRep - 1)
        /\ trees.best \in DOMAIN trees.n
        /\ trees.n[trees.best] = 0
        /\ best_tree = hist[BestRep].tree
        /\ best_loglike = hist[BestRep].current_lh
        /\ pc = "done" => out.best_tree = hist[BestRep].tree

\* a best tree retained in the first repetition has outlived a second
\* repetition that built and destroyed another tree
C22_Witness ==
    /\ pc = "done"
    /\ Len(hist) = 2
    /\ hist[1].retained /\ ~hist[2].retained
    /\ hist[2].tree # hist[1].tree
    /\ trees.n[TreeOf("ml_tree", 1)] = 1

(***************************************************************************)
(* C23: compute does not write to its input.                               *)
(***************************************************************************)
\* C23: from the call of compute on, whatever it has done (copied its
\* input, annealed, learned error parameters, written its result, run into
\* undefined behaviour) and after the binding has returned, *arguments
\* holds what sasc() marshalled into it: matrix, alphas, gammas, beta,
\* mutation labels and every other field.
C23_InputUnchanged ==
    (pc = "compute" \/ Started) => arguments = Marshal(call)

\* compute has returned after error learning moved its own copies of the
\* false-negative rates and of the false-positive rate away from the input
C23_Witness ==
    /\ pc = "done"
    /\ M > 0 /\ N > 0
    /\ MULTI_ALPHAS # arguments.alphas
    /\ \E n \in 1..Len(hist) : hist[n].beta # arguments.beta

(***************************************************************************)
(* C24: the workers of the per-cell maximization.                          *)
(***************************************************************************)
\* the score and attachment of the scoring under way, computed by one worker
Sequential ==
    greedy_tree_loglikelihood(scan.tree, scan.matrix, scan.alphas, scan.beta)

\* a step of the scoring: tree, matrix and error parameters are not
\* written; a slot changes only when the cell it belongs to is written, and
\* each cell is written once; what is there after the join is what one
\* worker computes
ScorerStep ==
    pc = "scoring" =>
        /\ scan'.tree = scan.tree /\ scan'.matrix = scan.matrix
        /\ scan'.alphas = scan.alphas /\ scan'.beta = scan.beta
        /\ \A i \in 1..Len(scan.matrix) :
              (scan'.sigma[i] # scan.sigma[i] \/ scan'.cell_lh[i] # scan.cell_lh[i])
                  => i \in scan'.written \ scan.written
        /\ Cardinality(scan'.written) <= Cardinality(scan.written) + 1
        /\ scan'.joined =>
              /\ scan'.sigma = Sequential.sigma
              /\ scan'.total = Sequential.lh

\* C24: with any number of workers from 1 on and for every interleaving of
\* their steps, the workers read the tree and the error parameters without
\* writing them, each writes only the attachment and score slot of the cell
\* it scored, and the attachment vector and total score after the join are
\* those of a scoring with one worker.
C24_WorkersRaceFree == [][ScorerStep]_vars

\* two workers have scored different cells at the same time and the join
\* has summed their slots; the cells are attached to different nodes
C24_Witness ==
    /\ pc = "scored"
    /\ scan.cores >= 2
    /\ scan.joined
    /\ \E i, j \in 1..Len(scan.matrix) : scan.sigma[i] # scan.sigma[j]

(***************************************************************************)
(* C25, C26: the initial tree of a repetition.                             *)
(***************************************************************************)
\* t is a tree of m + 1 nodes: the germline root, one gain node for each of
\* the mutations 0..m-1, no loss node, every other node under a node that
\* was created before it, and no node with more than two children
WellFormedInitialTree(t, m) ==
    /\ Len(t) = m + 1
    /\ t[1].mut_index = -1 /\ t[1].loss = 0 /\ t[1].parent = 0
    /\ \A j \in 0..(m - 1) :
          Cardinality({i \in 2..Len(t) : t[i].mut_index = j}) = 1
    /\ \A i \in 2..Len(t) : t[i].loss = 0 /\ t[i].parent \in 1..(i - 1)
    /\ \A i \in 1..Len(t) : Cardinality(Children(t, i)) <= 2

\* the head of a repetition hands anneal a well-formed initial tree
InitialTreeStep ==
    pc = "repetition" => pc' = "anneal" /\ WellFormedInitialTree(sa'.tree, M)

\* C25: the initial tree of each repetition has exactly M + 1 nodes, the
\* germline root (mut_index -1, no loss) and exactly one gain node for each
\* mutation 0..M-1; it has no loss node, every node but the root hangs under
\* a node created before it, and every node has at most two children.
C25_InitialTreeShape == [][InitialTreeStep]_vars

\* no two nodes of t have the same id
UniqueIds(t) ==
    \A a, b \in 1..Len(t) : t[a].id = t[b].id => a = b

\* the nodes of t in the order of their creation have increasing ids
IncreasingIds(t) ==
    \A a, b \in 1..Len(t) : a < b => t[a].id < t[b].id

\* the trees compute and anneal hold
HeldTrees ==
    {sa.tree, sa.best_tree, best_tree}
    \cup (IF pc = "done" THEN {out.best_tree} ELSE {})

\* a step gives the initial tree the ids 0, 1, ... in the order of
\* ml_tree_vec and leaves every tree held with unique ids
NodeIdStep ==
    /\ (pc = "repetition" /\ pc' = "anneal") =>
          /\ sa'.tree[1].id = 0 /\ sa'.tree[1].mut_index = -1
          /\ \A i \in 1..Len(sa'.tree) : sa'.tree[i].id = i - 1
          /\ IncreasingIds(sa'.tree)
    /\ pc' \in {"anneal", "output", "done"} =>
          \A t \in HeldTrees' : UniqueIds(t)

\* C26: the ids of the nodes of a tree are unique, and they are assigned in
\* the order of creation: in the initial tree of every repetition the root
\* has id 0 and the id of every node is its index in ml_tree_vec.
C26_NodeIdsUnique == [][NodeIdStep]_vars

\* the second repetition is under way on a tree that got a loss node, whose
\* id is beyond those of the initial tree
C26_Witness ==
    /\ pc = "anneal"
    /\ Len(hist) >= 1
    /\ \E i \in 1..Len(sa.tree) : sa.tree[i].loss = 1 /\ sa.tree[i].id > M
    /\ UniqueIds(sa.tree)

(***************************************************************************)
(* C27: the genotype profile of a node.                                    *)
(***************************************************************************)
\* the root-to-node path of i alone, as a tree that is one chain
PathOnly(tree, i) ==
    LET path == PathTo(tree, i)
    IN  [n \in 1..Len(path) |-> [tree[path[n]] EXCEPT !.parent = n - 1]]

\* the same tree with its nodes stored in the reverse order
Reversed(tree) ==
    LET at(p) == Len(tree) + 1 - p
    IN  [p \in 1..Len(tree) |->
            [tree[at(p)] EXCEPT !.parent = IF @ = 0 THEN 0 ELSE at(@)]]

\* the profile of every node of t is read off its path, is the profile the
\* path has on its own, and is that of the node in the reversed tree
ProfileOfPath(t, m) ==
    \A i \in 1..Len(t) :
        /\ get_genotype_profile(t, i, m) = PathProfile(t, i, m)
        /\ get_genotype_profile(t, i, m) =
              get_genotype_profile(PathOnly(t, i), Len(PathTo(t, i)), m)
        /\ get_genotype_profile(t, i, m) =
              get_genotype_profile(Reversed(t), Len(t) + 1 - i, m)

\* C27: the genotype profile of a node depends on its root-to-node path
\* only: the mutations gained on the path are present, those lost later on
\* it are absent, and the vector is the same whatever else the tree holds
\* and in whatever order its nodes were built or are stored.
C27_ProfileOfPathOnly ==
    pc \in {"anneal", "output", "done"} =>
        \A t \in HeldTrees : ProfileOfPath(t, M)

\* a tree with a branch off the path of a loss node, whose profile has the
\* lost mutation absent while a node off the path has gained another one
C27_Witness ==
    /\ pc = "anneal"
    /\ \E i \in LossNodes(sa.tree) : \E n \in 2..Len(sa.tree) :
          /\ \A q \in 1..Len(PathTo(sa.tree, i)) : PathTo(sa.tree, i)[q] # n
          /\ sa.tree[n].loss = 0
          /\ get_genotype_profile(sa.tree, i, M)[sa.tree[i].mut_index + 1] = 0
          /\ get_genotype_profile(sa.tree, i, M)[sa.tree[n].mut_index + 1] = 0
          /\ get_genotype_profile(sa.tree, n, M)[sa.tree[n].mut_index + 1] = 1

(***************************************************************************)
(* C28: the best tree after the loop.                                      *)
(***************************************************************************)
\* C28: whenever repetitions >= 1, best_tree is not NULL when the loop has
\* ended, whatever the scores of the repetitions were (minus infinity and
\* scores not above -DBL_MAX included), so that the final re-scoring and the
\* output never use a NULL tree.
C28_BestTreeAfterLoop ==
    (pc \in {"output", "done", "undefined"} /\ REPETITIONS >= 1 /\ Len(hist) = REPETITIONS) =>
        /\ best_tree # NULL
        /\ pc # "undefined"

(***************************************************************************)
(* C29: the loss counters.                                                 *)
(***************************************************************************)
\* the number of loss nodes of each mutation in a tree
LossCounts(tree, m) ==
    [j \in 1..m |->
        Cardinality({i \in LossNodes(tree) : tree[i].mut_index = j - 1})]

\* C29: at the start of every repetition, the second and later ones
\* included, Cj[j] = 0 for every mutation j, and Cj[j] is always the number
\* of loss nodes of mutation j in the tree it is passed with: the working
\* tree of the annealing run and the best tree of the final re-scoring.
C29_LossCountersAgree ==
    /\ pc = "repetition" => Cj = [j \in 1..M |-> 0]
    /\ pc = "anneal" => Cj = LossCounts(sa.tree, M)
    /\ (pc = "output" /\ best_tree # NULL) => Cj = LossCounts(best_tree, M)

(***************************************************************************)
(* C30: the unmarshalled tree.                                             *)
(***************************************************************************)
\* the graph G is the tree t: one node for each node of t and one add_node
\* call for each, and the edges are the parent relation of t
SameTree(G, t) ==
    /\ G.nodes = {NodeKey(t[i].id) : i \in 1..Len(t)}
    /\ Cardinality(G.nodes) = Len(t)
    /\ G.added = Len(t)
    /\ G.edges = {<<NodeKey(t[t[i].parent].id), NodeKey(t[i].id)>> :
                     i \in {n \in 1..Len(t) : t[n].parent # 0}}
    /\ Cardinality(G.edges) = Len(t) - 1
    /\ \A i \in 2..Len(t) :
          {e \in G.edges : e[2] = NodeKey(t[i].id)}
              = {<<NodeKey(t[t[i].parent].id), NodeKey(t[i].id)>>}
    /\ {e \in G.edges : e[2] = NodeKey(t[1].id)} = {}

\* the keys of the loss nodes of t
LossKeys(t) == {NodeKey(t[i].id) : i \in LossNodes(t)}

\* C30: unmarshalling terminates and preserves the tree: the graph holds
\* exactly one node for each node of the C tree, keyed by its id, the loss
\* nodes being those marked (with the red fill by _unmarshal_tree), and
\* exactly one edge parent.id -> node.id for every node but the root, and no
\* other edge: the graph is a tree with the parent relation of the C tree.
C30_UnmarshalPreservesTree ==
    pc = "returned" =>
        /\ SameTree(result.node_marks, out.best_tree)
        /\ result.inferred_tree.nodes \ CellNodesOf(result.inferred_tree)
              = result.node_marks.nodes
        /\ {e \in result.inferred_tree.edges :
                e[2] \notin CellNodesOf(result.inferred_tree)}
              = result.node_marks.edges
        /\ result.node_marks.red \cup result.node_marks.loss
              = LossKeys(out.best_tree)
        /\ result.binding = "sasc" =>
              result.node_marks.red = LossKeys(out.best_tree)

\* sasc() has returned a tree in which a node has two children and some
\* node is a loss, filled red in the graph
C30_Witness ==
    /\ pc = "returned"
    /\ result.binding = "sasc"
    /\ result.node_marks.red # {}
    /\ \E i \in 1..Len(out.best_tree) :
          Cardinality(Children(out.best_tree, i)) = 2
    /\ Cardinality(result.node_marks.edges) = Len(out.best_tree) - 1

=============================================================================
